---- MODULE Spec2Model ----
(***************************************************************************)
(* Lobby state-transition engine of frogbot: the game records and the      *)
(* active-player index kept in Redis, the commands that mutate them        *)
(* (CreateGame, JoinGame, LeaveGame, SettingsPollSelectionMade,            *)
(* WinnerSelection), the WATCH/MULTI/EXEC operations of utils/redis.js and *)
(* the periodic sweep of utils/utils.js.                                   *)
(*                                                                         *)
(* A step of the model is one Redis command (or one external request) of   *)
(* one handler: async handlers interleave at their awaits, and what a      *)
(* handler computes between two awaits is part of the step that follows.   *)
(***************************************************************************)
EXTENDS Integers, Sequences, FiniteSets, TLC

\* ---- bounds of the model
NumHandlers == 2
NumPlayers == 6
NumGames == 2
NumProcs == 2
MaxTime == 7
MaxRevotes == 2
MaxAge == 250
MaxSweepTime == 11

\* ---- program constants
MinPlayerCount == 4
NumSettings == 3
NOT_PLAYED_VOTE_THRESHOLD == 2
SETTINGS_SELECTION_TIME == 5
THREAD_OPEN_TIME == 3
OLD_GAME_THRESHOLD == 240
NOT_PLAYED == 0 - 1
ATOMIC_NOT_PLAYED == 0 - 2

Handlers == 1..NumHandlers
Players == 1..NumPlayers
GameIds == 1..NumGames
Procs == 1..NumProcs
settingsOptions == 1..NumSettings

VARIABLES
  store,        \* game-<id> keys: GameIds -> game record, or Null when absent
  index,        \* active-player-<id> keys: Players -> game id, 0 when absent
  watching,     \* per connection (one redisClient per process): WATCHed keys
  dirty,        \* per connection: a watched key was touched since WATCH
  hs,           \* the running handlers: position, arguments and locals
  addgameCalls, \* per game: requests made to the scoring service (addgame)
  version,      \* per game key: the number of writes Redis has applied to it
  now,          \* the clock, in minutes (Date.now())
  finalized,    \* the finalized-games key: a list of game ids, <<0>> when absent
  lockCalls,    \* per game: LockThread requests made for its thread
  redisClient,  \* per process: the module's client, "null", "open" or "closed"
  connectingPromise \* per process: "null", or the attempt: "pending", "rejected"

vars == <<store, index, watching, dirty, hs, addgameCalls, version, now, finalized,
          lockCalls, redisClient, connectingPromise>>

\* ---- values

Null == [gameThreadId |-> 0]
IsNull(g) == g.gameThreadId = 0

NoVotes == [p \in Players |-> 0]

\* create-game.js: the record CreateGame stores
NewGame(gid, creatorId, playerCount, eloRequirement, t) ==
  [gameThreadId |-> gid, creatorId |-> creatorId, playerCount |-> playerCount,
   eloRequirement |-> eloRequirement, players |-> <<creatorId>>, selectedSettingId |-> 0, settingsVotes |-> NoVotes,
   winnerVotes |-> <<>>, winner |-> 0, completedAt |-> 0, createdAt |-> t,
   filledAt |-> 0]

Includes(s, x) == \E i \in 1..Len(s) : s[i] = x
Without(s, x) == SelectSeq(s, LAMBDA y : y # x)
Range(s) == {s[i] : i \in 1..Len(s)}

\* Object.keys(game.settingsVotes)
SettingsVoters(g) == {p \in Players : g.settingsVotes[p] # 0}
\* the setting ids of Object.values(game.settingsVotes)
SettingsVoteValues(g) == {g.settingsVotes[p] : p \in SettingsVoters(g)}

Idle ==
  [op |-> "none", pc |-> "idle", player |-> 0, gid |-> 0, arg |-> 0, proc |-> 1,
   game |-> Null, upd |-> Null, idxw |-> "none", aux |-> 0, todo |-> <<>>,
   pend |-> "none", ver |-> 0 - 1, scored |-> "none", result |-> "none",
   elo |-> 0, list |-> <<>>, wait |-> {}]

\* a handler that has returned: its locals are gone, its result stays
Finish(r, result) ==
  [r EXCEPT !.pc = "done", !.game = Null, !.upd = Null, !.idxw = "none",
            !.aux = 0, !.todo = <<>>, !.pend = "none", !.result = result,
            !.list = <<>>, !.wait = {}]

At(h, op, pc) == hs[h].op = op /\ hs[h].pc = pc
SetH(h, r) == hs' = [hs EXCEPT ![h] = r]

\* ---- Redis

\* a write to game key gid marks every connection that watches it
Touch(d, gid) == [c \in Procs |-> d[c] \/ gid \in watching[c]]

\* SETEX game-<gid> (SetGame) outside a transaction
SetGame(gid, game) ==
  /\ store' = [store EXCEPT ![gid] = game]
  /\ version' = [version EXCEPT ![gid] = @ + 1]
  /\ dirty' = Touch(dirty, gid)
  /\ UNCHANGED watching

\* UNWATCH on connection c: forgets every watched key of the connection
Unwatched(c) ==
  /\ watching' = [watching EXCEPT ![c] = {}]
  /\ dirty' = [dirty EXCEPT ![c] = FALSE]

\* EXEC of a MULTI on the handler's connection: aborted when a watched key was
\* touched, else the queued writes (the game key, the caller's index key) are
\* applied together; either way the connection's watches are gone afterwards
\* a caller that reports a conflict whatever multi.exec() answered
ExecResult_AlwaysConflict(r, aborted) == "conflict"

\* if (!results): a null answer of multi.exec() is reported as a conflict
ExecResult(r, aborted) == IF aborted THEN "conflict" ELSE r.pend

Exec(h) ==
  /\ hs[h].pc = "exec"
  /\ LET r == hs[h]
         c == r.proc
     IN  /\ watching' = [watching EXCEPT ![c] = {}]
         /\ IF dirty[c]
              THEN /\ dirty' = [dirty EXCEPT ![c] = FALSE]
                   /\ UNCHANGED <<store, index, version>>
              ELSE /\ store' = [store EXCEPT ![r.gid] = r.upd]
                   /\ version' = [version EXCEPT ![r.gid] = @ + 1]
                   /\ index' = IF r.idxw = "set" THEN [index EXCEPT ![r.player] = r.gid]
                               ELSE IF r.idxw = "del" THEN [index EXCEPT ![r.player] = 0]
                               ELSE index
                   /\ dirty' = [Touch(dirty, r.gid) EXCEPT ![c] = FALSE]
         /\ SetH(h, Finish(r, ExecResult(r, dirty[c])))
  /\ UNCHANGED <<addgameCalls, now, finalized, lockCalls, redisClient,
                 connectingPromise>>

\* the UNWATCH an Atomic* operation sends before it returns a rejection
Unwatch(h) ==
  /\ hs[h].pc = "unwatch"
  /\ Unwatched(hs[h].proc)
  /\ SetH(h, Finish(hs[h], hs[h].pend))
  /\ UNCHANGED <<store, index, addgameCalls, version, now, finalized, lockCalls,
                 redisClient, connectingPromise>>

\* redisClient.watch(gameKey), the first command of every Atomic* operation
Watch(h) ==
  /\ hs[h].pc = "watch"
  /\ watching' = [watching EXCEPT ![hs[h].proc] = @ \cup {hs[h].gid}]
  /\ SetH(h, [hs[h] EXCEPT !.pc = "get"])
  /\ UNCHANGED <<store, index, dirty, addgameCalls, version, now, finalized, lockCalls,
                 redisClient, connectingPromise>>

\* the handler has read its game key at the key's current version
Seen(r) == [r EXCEPT !.ver = version[r.gid]]

\* a rejection that sends the transaction off instead of UNWATCH
Reject_Execs(r, why) == [r EXCEPT !.pc = "exec", !.pend = why]

Reject(r, why) == [r EXCEPT !.pc = "unwatch", !.pend = why]
Commit(r, upd, idxw) == [r EXCEPT !.pc = "exec", !.upd = upd, !.idxw = idxw, !.pend = "success"]

\* ---- AtomicJoinGame (utils/redis.js)

AtomicJoinUpdated(game, playerId) == [game EXCEPT !.players = Append(@, playerId)]

AtomicJoinCompute(r, game) ==
  IF IsNull(game) THEN Reject(r, "notfound")
  ELSE IF Includes(game.players, r.player) THEN Reject(r, "validation")
  ELSE IF Len(game.players) >= game.playerCount THEN Reject(r, "validation")
  ELSE IF game.selectedSettingId # 0 THEN Reject(r, "validation")
  ELSE Commit(r, AtomicJoinUpdated(game, r.player), "set")

AtomicJoinGame_Get(h) ==
  /\ At(h, "AtomicJoinGame", "get")
  /\ SetH(h, AtomicJoinCompute(Seen(hs[h]), store[hs[h].gid]))
  /\ UNCHANGED <<store, index, watching, dirty, addgameCalls, version, now, finalized,
                 lockCalls, redisClient, connectingPromise>>

\* ---- JoinGame (commands/join-game.js) and IsPlayerInGame (utils/redis.js)

\* validateJoinGameConditions, once IsPlayerInGame has answered false
\* (the lobbies modelled have eloRequirement 0)
\* a validation that lets a full lobby through
JoinGameFull_Never(game) == Len(game.players) > game.playerCount

JoinGameFull(game) == Len(game.players) = game.playerCount

\* FetchPlayerInfo (utils/friends-of-risk.js): the getuser request throws when
\* the response is not ok, else it answers the player's record, whose
\* ffa_elo_score may be missing
LOOKUP_FAILED == 0 - 1

\* the ffa_elo_score the rating service holds, 0 where the record has none
FfaEloScore == [p \in Players |-> IF p = 4 THEN 1 ELSE IF p = 6 THEN 0 ELSE 3]

\* what a lookup for playerId can answer
PlayerInfos(playerId) == {LOOKUP_FAILED, FfaEloScore[playerId]}

\* game.eloRequirement > 0 ? FetchPlayerInfo(playerId) : Promise.resolve(null)
JoinPlayerInfos(game, playerId) ==
  IF game.eloRequirement > 0 THEN PlayerInfos(playerId) ELSE {0}

\* the checks of validateJoinGameConditions after Promise.all, which rejects
\* when the lookup threw
JoinValidated(r, playerInfo) ==
  IF playerInfo = LOOKUP_FAILED THEN Finish(r, "error")
  ELSE IF JoinGameFull(r.game) THEN Finish(r, "validation")
  ELSE IF r.game.eloRequirement # 0 /\ playerInfo < r.game.eloRequirement
    THEN Finish(r, "validation")
  ELSE [r EXCEPT !.pc = "setidx"]

JoinGame_GetGame(h) ==
  /\ At(h, "JoinGame", "get")
  /\ LET game == store[hs[h].gid]
     IN  SetH(h, IF IsNull(game) THEN Finish(hs[h], "notfound")
                 ELSE [hs[h] EXCEPT !.game = game, !.pc = "idx"])
  /\ UNCHANGED <<store, index, watching, dirty, addgameCalls, version, now, finalized,
                 lockCalls, redisClient, connectingPromise>>

\* IsPlayerInGame: GET active-player-<id>
JoinGame_IsPlayerInGame(h) ==
  /\ At(h, "JoinGame", "idx")
  /\ LET gameId == index[hs[h].player]
     IN  IF gameId = 0
           THEN \E playerInfo \in JoinPlayerInfos(hs[h].game, hs[h].player) :
                  SetH(h, JoinValidated(hs[h], playerInfo))
           ELSE SetH(h, [hs[h] EXCEPT !.aux = gameId, !.pc = "idxgame"])
  /\ UNCHANGED <<store, index, watching, dirty, addgameCalls, version, now, finalized,
                 lockCalls, redisClient, connectingPromise>>

\* IsPlayerInGame: GetGame(gameId) of the indexed game
IndexIsStale(game, playerId) == IsNull(game) \/ ~Includes(game.players, playerId)

JoinGame_IsPlayerInGame_Game(h) ==
  /\ At(h, "JoinGame", "idxgame")
  /\ SetH(h, IF IndexIsStale(store[hs[h].aux], hs[h].player)
               THEN [hs[h] EXCEPT !.pc = "idxdel"]
               ELSE Finish(hs[h], "validation"))
  /\ UNCHANGED <<store, index, watching, dirty, addgameCalls, version, now, finalized,
                 lockCalls, redisClient, connectingPromise>>

\* IsPlayerInGame: RemovePlayerInGame of a stale record
JoinGame_IsPlayerInGame_Del(h) ==
  /\ At(h, "JoinGame", "idxdel")
  /\ index' = [index EXCEPT ![hs[h].player] = 0]
  /\ \E playerInfo \in JoinPlayerInfos(hs[h].game, hs[h].player) :
       SetH(h, JoinValidated(hs[h], playerInfo))
  /\ UNCHANGED <<store, watching, dirty, addgameCalls, version, now, finalized,
                 lockCalls, redisClient, connectingPromise>>

JoinGame_SetPlayerInGame(h) ==
  /\ At(h, "JoinGame", "setidx")
  /\ index' = [index EXCEPT ![hs[h].player] = hs[h].gid]
  /\ SetH(h, [hs[h] EXCEPT !.pc = "set"])
  /\ UNCHANGED <<store, watching, dirty, addgameCalls, version, now, finalized,
                 lockCalls, redisClient, connectingPromise>>

\* AddPlayerToThread, awaited together with SetPlayerInGame, is rejected: JoinGame
\* throws with the index entry written
JoinGame_Fail(h) ==
  /\ At(h, "JoinGame", "set")
  /\ SetH(h, Finish(hs[h], "error"))
  /\ UNCHANGED <<store, index, watching, dirty, addgameCalls, version, now, finalized,
                 lockCalls, redisClient, connectingPromise>>

\* game.players.push(playerId); SetGame(gameId, game)
JoinGame_SetGame(h) ==
  /\ At(h, "JoinGame", "set")
  /\ LET game == [hs[h].game EXCEPT !.players = Append(@, hs[h].player)]
     IN  /\ SetGame(hs[h].gid, game)
         /\ SetH(h, IF game.playerCount = Len(game.players)
                      THEN [hs[h] EXCEPT !.game = game, !.pc = "filled"]
                      ELSE Finish(hs[h], "success"))
  /\ UNCHANGED <<index, addgameCalls, now, finalized, lockCalls, redisClient,
                 connectingPromise>>

\* updateGameFilled
JoinGame_UpdateGameFilled(h) ==
  /\ At(h, "JoinGame", "filled")
  /\ SetGame(hs[h].gid, [hs[h].game EXCEPT !.filledAt = now])
  /\ SetH(h, Finish(hs[h], "success"))
  /\ UNCHANGED <<index, addgameCalls, now, finalized, lockCalls, redisClient,
                 connectingPromise>>

\* ---- CreateGame (commands/create-game.js)

\* the thread id Discord hands out is one no game has had
Fresh(gid) ==
  /\ IsNull(store[gid])
  /\ \A p \in Players : index[p] # gid
  /\ \A k \in Handlers : hs[k].gid # gid

CreateGame_GetPlayerInGame(h) ==
  /\ At(h, "CreateGame", "idx")
  /\ SetH(h, IF index[hs[h].player] # 0 THEN Finish(hs[h], "validation")
             ELSE [hs[h] EXCEPT !.pc = "fetch"])
  /\ UNCHANGED <<store, index, watching, dirty, addgameCalls, version, now, finalized,
                 lockCalls, redisClient, connectingPromise>>

\* validateCreatorElo: creatorData?.ffa_elo_score || 0 against requiredElo
CreatorEloMet(playerInfo, requiredElo) ==
  requiredElo <= 0 \/ ~(playerInfo = 0 \/ playerInfo < requiredElo)

\* FetchPlayerInfo(creatorId), validateCreatorElo and createGameThread
CreateGame_FetchPlayerInfo(h) ==
  /\ At(h, "CreateGame", "fetch")
  /\ \E playerInfo \in PlayerInfos(hs[h].player) :
       IF playerInfo = LOOKUP_FAILED THEN SetH(h, Finish(hs[h], "error"))
       ELSE IF ~CreatorEloMet(playerInfo, hs[h].elo) THEN SetH(h, Finish(hs[h], "validation"))
       ELSE \E gid \in GameIds :
              /\ Fresh(gid)
              /\ SetH(h, [hs[h] EXCEPT !.gid = gid, !.pc = "setidx"])
  /\ UNCHANGED <<store, index, watching, dirty, addgameCalls, version, now, finalized,
                 lockCalls, redisClient, connectingPromise>>

CreateGame_SetPlayerInGame(h) ==
  /\ At(h, "CreateGame", "setidx")
  /\ index' = [index EXCEPT ![hs[h].player] = hs[h].gid]
  /\ SetH(h, [hs[h] EXCEPT !.pc = "set"])
  /\ UNCHANGED <<store, watching, dirty, addgameCalls, version, now, finalized,
                 lockCalls, redisClient, connectingPromise>>

CreateGame_SetGame(h) ==
  /\ At(h, "CreateGame", "set")
  /\ SetGame(hs[h].gid, NewGame(hs[h].gid, hs[h].player, hs[h].arg, hs[h].elo, now))
  /\ SetH(h, Finish(hs[h], "success"))
  /\ UNCHANGED <<index, addgameCalls, now, finalized, lockCalls, redisClient,
                 connectingPromise>>

\* one of the requests awaited together with SetPlayerInGame is rejected, or
\* SetGame returns null: CreateGame ends with the index entry written and no game
CreateGame_Fail(h) ==
  /\ At(h, "CreateGame", "set")
  /\ SetH(h, Finish(hs[h], "error"))
  /\ UNCHANGED <<store, index, watching, dirty, addgameCalls, version, now, finalized,
                 lockCalls, redisClient, connectingPromise>>

\* ---- AtomicLeaveGame (utils/redis.js), the whole of LeaveGame's store access

AtomicLeaveUpdated(game, playerId) ==
  LET left == [game EXCEPT !.players = Without(@, playerId),
                           !.settingsVotes = [@ EXCEPT ![playerId] = 0]]
  IN  IF left.filledAt # 0 /\ Len(left.players) < left.playerCount
        THEN [left EXCEPT !.filledAt = 0]
        ELSE left

\* multi.del(gameKey) when nobody is left, multi.setEx(gameKey, ...) otherwise
AtomicLeaveWrite(updatedGame) == IF Len(updatedGame.players) = 0 THEN Null ELSE updatedGame

AtomicLeaveCompute(r, game) ==
  IF IsNull(game) THEN Reject(r, "notfound")
  ELSE IF ~Includes(game.players, r.player) THEN Reject(r, "validation")
  ELSE IF game.selectedSettingId # 0 THEN Reject(r, "validation")
  ELSE Commit(r, AtomicLeaveWrite(AtomicLeaveUpdated(game, r.player)), "del")

AtomicLeaveGame_Get(h) ==
  /\ At(h, "LeaveGame", "get")
  /\ SetH(h, AtomicLeaveCompute(Seen(hs[h]), store[hs[h].gid]))
  /\ UNCHANGED <<store, index, watching, dirty, addgameCalls, version, now, finalized,
                 lockCalls, redisClient, connectingPromise>>

\* ---- LeaveGame of commands/leave-game.js, over GetGame, SetGame,
\* RemovePlayerInGame and RemoveGame

\* game.players.filter(...); delete game.settingsVotes[playerId]
LeaveGameUpdated(game, playerId) ==
  [game EXCEPT !.players = Without(@, playerId),
               !.settingsVotes = [@ EXCEPT ![playerId] = 0]]

\* GetGame and the two checks that throw LeaveGameError
LeaveGame_GetGame(h) ==
  /\ At(h, "leave-game.js", "get")
  /\ LET r == Seen(hs[h])
         game == store[r.gid]
     IN  SetH(h, IF IsNull(game) THEN Finish(r, "notfound")
                 ELSE IF game.selectedSettingId # 0 THEN Finish(r, "validation")
                 ELSE [r EXCEPT !.game = game, !.pc = "set"])
  /\ UNCHANGED <<store, index, watching, dirty, addgameCalls, version, now, finalized,
                 lockCalls, redisClient, connectingPromise>>

\* SetGame(gameId, game) of the game without the player
LeaveGame_SetGame(h) ==
  /\ At(h, "leave-game.js", "set")
  /\ LET game == LeaveGameUpdated(hs[h].game, hs[h].player)
     IN  /\ SetGame(hs[h].gid, game)
         /\ SetH(h, [hs[h] EXCEPT !.upd = game, !.pc = "rmidx"])
  /\ UNCHANGED <<index, addgameCalls, now, finalized, lockCalls, redisClient,
                 connectingPromise>>

\* RemovePlayerInGame(playerId), the first of the cleanup operations
LeaveGame_RemovePlayerInGame(h) ==
  /\ At(h, "leave-game.js", "rmidx")
  /\ index' = [index EXCEPT ![hs[h].player] = 0]
  /\ SetH(h, IF Len(hs[h].upd.players) = 0 THEN [hs[h] EXCEPT !.pc = "rmgame"]
             ELSE Finish(hs[h], "success"))
  /\ UNCHANGED <<store, watching, dirty, addgameCalls, version, now, finalized,
                 lockCalls, redisClient, connectingPromise>>

\* cancelGameIfEmpty: RemoveGame(gameThreadId) when players.length === 0
cancelGameIfEmpty_RemoveGame(h) ==
  /\ At(h, "leave-game.js", "rmgame")
  /\ SetGame(hs[h].gid, Null)
  /\ SetH(h, Finish(hs[h], "success"))
  /\ UNCHANGED <<index, addgameCalls, now, finalized, lockCalls, redisClient,
                 connectingPromise>>

\* ---- SettingsPollSelectionMade (commands) and AtomicVoteSettings (utils/redis.js)

\* GetGame, then game.settingsOptions.find(...) of the selection
SettingsPoll_GetGame(h) ==
  /\ At(h, "SettingsPollSelectionMade", "spget")
  /\ SetH(h, IF IsNull(store[hs[h].gid]) THEN Finish(hs[h], "notfound")
             ELSE IF hs[h].arg \notin settingsOptions THEN Finish(hs[h], "validation")
             ELSE [hs[h] EXCEPT !.pc = "watch"])
  /\ UNCHANGED <<store, index, watching, dirty, addgameCalls, version, now, finalized,
                 lockCalls, redisClient, connectingPromise>>

\* a check that never finds an earlier vote
SettingsAlreadyVoted_Never(game, playerId) == FALSE

\* game.settingsVotes[playerId]
SettingsAlreadyVoted(game, playerId) == game.settingsVotes[playerId] # 0

AtomicVoteSettingsVoted(game, playerId, settingsChoice) ==
  [game EXCEPT !.settingsVotes = [@ EXCEPT ![playerId] = settingsChoice]]

\* voteCount === updatedGame.playerCount
SettingsShouldFinalize(updatedGame) ==
  Cardinality(SettingsVoters(updatedGame)) = updatedGame.playerCount

\* a draw among the poll's options instead of the votes
AtomicVoteSettingsUpdates_AnyOption(game, playerId, settingsChoice) ==
  LET voted == AtomicVoteSettingsVoted(game, playerId, settingsChoice)
  IN  IF SettingsShouldFinalize(voted)
        THEN {[voted EXCEPT !.selectedSettingId = sel] : sel \in settingsOptions}
        ELSE {voted}

\* the updated games AtomicVoteSettings can queue: Math.random() picks the vote
AtomicVoteSettingsUpdates(game, playerId, settingsChoice) ==
  LET voted == AtomicVoteSettingsVoted(game, playerId, settingsChoice)
  IN  IF SettingsShouldFinalize(voted)
        THEN {[voted EXCEPT !.selectedSettingId = sel] : sel \in SettingsVoteValues(voted)}
        ELSE {voted}

AtomicVoteSettings_Get(h) ==
  /\ At(h, "SettingsPollSelectionMade", "get")
  /\ LET r == Seen(hs[h])
         game == store[r.gid]
     IN  IF IsNull(game) THEN SetH(h, Reject(r, "notfound"))
         ELSE IF game.selectedSettingId # 0 THEN SetH(h, Reject(r, "validation"))
         ELSE IF SettingsAlreadyVoted(game, r.player) THEN SetH(h, Reject(r, "validation"))
         ELSE \E upd \in AtomicVoteSettingsUpdates(game, r.player, r.arg) :
                SetH(h, Commit(r, upd, "none"))
  /\ UNCHANGED <<store, index, watching, dirty, addgameCalls, version, now, finalized,
                 lockCalls, redisClient, connectingPromise>>

\* ---- the winner tally (commands/winner-selection.js, utils/redis.js, constants.js)

REQUIRED_VOTES_BY_PLAYER_COUNT == [n \in 4..6 |-> IF n = 6 THEN 4 ELSE 3]

\* REQUIRED_VOTES_BY_PLAYER_COUNT[playerCount] || Math.ceil(playerCount * 0.6)
AtomicRequiredVotes(playerCount) ==
  IF playerCount \in DOMAIN REQUIRED_VOTES_BY_PLAYER_COUNT
    THEN REQUIRED_VOTES_BY_PLAYER_COUNT[playerCount]
    ELSE (6 * playerCount + 9) \div 10

\* winnerVotes is an object: its keys keep the order in which they were first set
HasVoted(winnerVotes, playerId) == \E i \in 1..Len(winnerVotes) : winnerVotes[i][1] = playerId

\* a vote that is added next to the participant's earlier one
SetVote_Appends(winnerVotes, playerId, winnerId) == Append(winnerVotes, <<playerId, winnerId>>)

SetVote(winnerVotes, playerId, winnerId) ==
  IF HasVoted(winnerVotes, playerId)
    THEN [i \in 1..Len(winnerVotes) |->
            IF winnerVotes[i][1] = playerId THEN <<playerId, winnerId>> ELSE winnerVotes[i]]
    ELSE Append(winnerVotes, <<playerId, winnerId>>)

\* Object.values(game.winnerVotes)
VoteValues(winnerVotes) == [i \in 1..Len(winnerVotes) |-> winnerVotes[i][2]]

CountOf(votes, v) == Cardinality({i \in 1..Len(votes) : votes[i] = v})

\* determineWinner: the first vote, in scan order, whose running count reaches
\* requiredToWinCount; 0 stands for null
\* a count that stops one vote short of requiredToWinCount
determineWinner_OneShort(votes, requiredToWinCount) ==
  LET hits == {i \in 1..Len(votes) :
                 Cardinality({j \in 1..i : votes[j] = votes[i]}) >= requiredToWinCount - 1}
  IN  IF hits = {} THEN 0
      ELSE votes[CHOOSE i \in hits : \A j \in hits : i <= j]

determineWinner(votes, requiredToWinCount) ==
  LET hits == {i \in 1..Len(votes) :
                 Cardinality({j \in 1..i : votes[j] = votes[i]}) >= requiredToWinCount}
  IN  IF hits = {} THEN 0
      ELSE votes[CHOOSE i \in hits : \A j \in hits : i <= j]

\* the branch taken after a vote: with notPlayed the value the code compares to
Tally(game, requiredVotes, notPlayed) ==
  LET votes == VoteValues(game.winnerVotes)
      voteCount == Len(votes)
      winner == determineWinner(SelectSeq(votes, LAMBDA v : v # notPlayed), requiredVotes)
  IN  IF CountOf(votes, notPlayed) >= NOT_PLAYED_VOTE_THRESHOLD
        THEN [kind |-> "not_played", winner |-> 0]
      ELSE IF voteCount >= requiredVotes
        THEN IF winner = 0 /\ voteCount = game.playerCount
               THEN [kind |-> "no_majority", winner |-> 0]
             ELSE IF winner # 0 THEN [kind |-> "winner_determined", winner |-> winner]
             ELSE [kind |-> "undecided", winner |-> 0]
      ELSE [kind |-> "pending", winner |-> 0]

\* the resolution a tally stands for: not played, winner c, no majority, or
\* none yet
Resolution(tally) ==
  IF tally.kind \in {"undecided", "pending"} THEN <<"unresolved", 0>>
  ELSE <<tally.kind, tally.winner>>

\* the reason AtomicVoteWinner computes for a record with the vote in it
AtomicVoteWinnerResolution(game) ==
  Resolution(Tally(game, AtomicRequiredVotes(game.playerCount), ATOMIC_NOT_PLAYED))

\* the branch WinnerSelection takes for a record with the vote in it
WinnerSelectionResolution(game) ==
  Resolution(Tally(game, REQUIRED_VOTES_BY_PLAYER_COUNT[game.playerCount], NOT_PLAYED))

\* ---- AtomicVoteWinner (utils/redis.js)

AtomicVoteWinnerUpdated(game, playerId, winnerId) ==
  LET voted == [game EXCEPT !.winnerVotes = Append(@, <<playerId, winnerId>>)]
      tally == Tally(voted, AtomicRequiredVotes(voted.playerCount), ATOMIC_NOT_PLAYED)
  IN  IF tally.kind = "winner_determined" THEN [voted EXCEPT !.winner = tally.winner]
      ELSE voted

AtomicVoteWinnerCompute(r, game) ==
  IF IsNull(game) THEN Reject(r, "notfound")
  ELSE IF game.winner # 0 THEN Reject(r, "validation")
  ELSE IF HasVoted(game.winnerVotes, r.player) THEN Reject(r, "alreadyvoted")
  ELSE Commit(r, AtomicVoteWinnerUpdated(game, r.player, r.arg), "none")

AtomicVoteWinner_Get(h) ==
  /\ At(h, "AtomicVoteWinner", "get")
  /\ SetH(h, AtomicVoteWinnerCompute(Seen(hs[h]), store[hs[h].gid]))
  /\ UNCHANGED <<store, index, watching, dirty, addgameCalls, version, now, finalized,
                 lockCalls, redisClient, connectingPromise>>

\* ---- WinnerSelection (commands/winner-selection.js)

\* GetGame; game.winner makes the call return false (a missing game makes
\* game.winner throw)
WinnerSelection_GetGame(h) ==
  /\ At(h, "WinnerSelection", "get")
  /\ LET r == Seen(hs[h])
         game == store[r.gid]
     IN  SetH(h, IF IsNull(game) THEN Finish(r, "error")
                 ELSE IF game.winner # 0 THEN Finish(r, "validation")
                 ELSE [r EXCEPT !.game = game, !.pc = "vote"])
  /\ UNCHANGED <<store, index, watching, dirty, addgameCalls, version, now, finalized,
                 lockCalls, redisClient, connectingPromise>>

\* where WinnerSelection goes once its vote is stored
\* a handler that ends the game when nobody has a majority
WinnerSelectionNext_EndsOnNoMajority(r, game) ==
  LET tally == Tally(game, REQUIRED_VOTES_BY_PLAYER_COUNT[game.playerCount], NOT_PLAYED)
  IN  IF tally.kind \in {"not_played", "no_majority"}
        THEN [r EXCEPT !.game = game, !.pc = "rmget", !.pend = "success"]
      ELSE IF tally.kind = "winner_determined"
        THEN [r EXCEPT !.game = game, !.aux = tally.winner, !.pc = "addgame"]
      ELSE Finish(r, "success")

WinnerSelectionNext(r, game) ==
  LET tally == Tally(game, REQUIRED_VOTES_BY_PLAYER_COUNT[game.playerCount], NOT_PLAYED)
  IN  IF tally.kind = "not_played"
        THEN [r EXCEPT !.game = game, !.pc = "rmget", !.pend = "success"]
      ELSE IF tally.kind = "winner_determined"
        THEN [r EXCEPT !.game = game, !.aux = tally.winner, !.pc = "addgame"]
      ELSE Finish(r, "success")

\* game.winnerVotes[playerId] = winnerId; SetGame(gameId, game)
WinnerSelection_SetVote(h) ==
  /\ At(h, "WinnerSelection", "vote")
  /\ LET game == [hs[h].game EXCEPT !.winnerVotes = SetVote(@, hs[h].player, hs[h].arg)]
     IN  /\ SetGame(hs[h].gid, game)
         /\ SetH(h, WinnerSelectionNext(hs[h], game))
  /\ UNCHANGED <<index, addgameCalls, now, finalized, lockCalls, redisClient,
                 connectingPromise>>

\* the handler after the addgame request: FriendsOfRiskRequest throws unless
\* res.ok, and a response that is not ok makes the call return false
\* a handler that goes on to store the winner whatever the service answered
AfterAddGame_Regardless(r, ok) ==
  [r EXCEPT !.scored = IF ok THEN "ok" ELSE "failed", !.pc = "setwinner"]

AfterAddGame(r, ok) ==
  IF ok THEN [r EXCEPT !.scored = "ok", !.pc = "setwinner"]
  ELSE Finish([r EXCEPT !.scored = "failed"], "error")

\* addGameToFriendsOfRisk: the request to the scoring service and its answer
WinnerSelection_AddGame(h) ==
  /\ At(h, "WinnerSelection", "addgame")
  /\ addgameCalls' = [addgameCalls EXCEPT ![hs[h].gid] = @ + 1]
  /\ \E ok \in BOOLEAN : SetH(h, AfterAddGame(hs[h], ok))
  /\ UNCHANGED <<store, index, watching, dirty, version, now, finalized, lockCalls,
                 redisClient, connectingPromise>>

\* game.winner = winner; SetGame(gameId, game)
WinnerSelection_SetWinner(h) ==
  /\ At(h, "WinnerSelection", "setwinner")
  /\ LET game == [hs[h].game EXCEPT !.winner = hs[h].aux]
     IN  /\ SetGame(hs[h].gid, game)
         /\ SetH(h, [hs[h] EXCEPT !.game = game, !.pc = "rmget", !.pend = "success"])
  /\ UNCHANGED <<index, addgameCalls, now, finalized, lockCalls, redisClient,
                 connectingPromise>>

\* what follows RemoveAllPlayersInGame: RemoveGame in CleanUpOldGames, the
\* return elsewhere
AfterRemoveAll(r) ==
  IF r.op = "CleanUpOldGames" THEN [r EXCEPT !.todo = <<>>, !.pc = "rmgame"]
  ELSE Finish(r, r.pend)

\* RemoveAllPlayersInGame: GetGame, which throws when the game is gone
RemoveAllPlayersInGame_GetGame(h) ==
  /\ hs[h].pc = "rmget"
  /\ LET game == store[hs[h].gid]
     IN  SetH(h, IF IsNull(game) THEN Finish(hs[h], "error")
                 ELSE IF game.players = <<>> THEN AfterRemoveAll(hs[h])
                 ELSE [hs[h] EXCEPT !.todo = game.players, !.pc = "rmdel"])
  /\ UNCHANGED <<store, index, watching, dirty, addgameCalls, version, now, finalized,
                 lockCalls, redisClient, connectingPromise>>

\* RemoveAllPlayersInGame: one RemovePlayerInGame of its loop
RemoveAllPlayersInGame_Del(h) ==
  /\ hs[h].pc = "rmdel"
  /\ index' = [index EXCEPT ![Head(hs[h].todo)] = 0]
  /\ SetH(h, IF Len(hs[h].todo) = 1 THEN AfterRemoveAll(hs[h])
             ELSE [hs[h] EXCEPT !.todo = Tail(@)])
  /\ UNCHANGED <<store, watching, dirty, addgameCalls, version, now, finalized,
                 lockCalls, redisClient, connectingPromise>>

\* ---- CloseSettingsSelection (utils/utils.js) over MapToAllGames (utils/redis.js)

\* scanIterator({ MATCH: 'game-*' }): the game keys present
RECURSIVE SeqOf(_)
SeqOf(S) == IF S = {} THEN <<>>
            ELSE LET x == CHOOSE x \in S : \A y \in S : x <= y
                 IN  <<x>> \o SeqOf(S \ {x})

CloseSettings_Scan(h) ==
  /\ At(h, "CloseSettingsSelection", "scan")
  /\ LET keys == SeqOf({g \in GameIds : ~IsNull(store[g])})
     IN  SetH(h, IF keys = <<>> THEN Finish(hs[h], "success")
                 ELSE [hs[h] EXCEPT !.todo = keys, !.pc = "swget"])
  /\ UNCHANGED <<store, index, watching, dirty, addgameCalls, version, now, finalized,
                 lockCalls, redisClient, connectingPromise>>

\* a callback that always returns early
SettingsSelectionOpen_Always(game, startTime) == TRUE

\* the early returns of the callback
SettingsSelectionOpen(game, startTime) ==
  \/ game.selectedSettingId # 0
  \/ game.filledAt = 0
  \/ startTime - game.filledAt < SETTINGS_SELECTION_TIME

\* the setting ids the callback can pick: a submitted vote, else any option
CloseSettingsChoices(game) ==
  IF SettingsVoters(game) # {} THEN SettingsVoteValues(game) ELSE settingsOptions

\* the handler once the callback is through with the head of todo
SweepOn(r) ==
  IF Len(r.todo) = 1 THEN Finish(r, "success")
  ELSE [r EXCEPT !.todo = Tail(@), !.upd = Null, !.pc = "swget"]

\* redisClient.get(key) of the next key and the callback up to its SetGame
CloseSettings_Get(h) ==
  /\ At(h, "CloseSettingsSelection", "swget")
  /\ LET r == [hs[h] EXCEPT !.gid = Head(hs[h].todo), !.ver = version[Head(hs[h].todo)]]
         game == store[r.gid]
     IN  IF IsNull(game) \/ SettingsSelectionOpen(game, r.arg)
           THEN SetH(h, SweepOn(r))
           ELSE \E sel \in CloseSettingsChoices(game) :
                  SetH(h, [r EXCEPT !.upd = [game EXCEPT !.selectedSettingId = sel],
                                    !.pc = "swset"])
  /\ UNCHANGED <<store, index, watching, dirty, addgameCalls, version, now, finalized,
                 lockCalls, redisClient, connectingPromise>>

\* SetGame(game.gameThreadId, game) of the callback
CloseSettings_SetGame(h) ==
  /\ At(h, "CloseSettingsSelection", "swset")
  /\ SetGame(hs[h].gid, hs[h].upd)
  /\ SetH(h, SweepOn(hs[h]))
  /\ UNCHANGED <<index, addgameCalls, now, finalized, lockCalls, redisClient,
                 connectingPromise>>

\* ---- getRedisClient (utils/redis.js, the lazily connected client)

\* the two early returns, else connectingPromise = createClient(...).connect()
getRedisClient_Check(h) ==
  /\ At(h, "getRedisClient", "check")
  /\ LET c == hs[h].proc
     IN  IF redisClient[c] = "open"
           THEN /\ SetH(h, Finish(hs[h], "client"))
                /\ UNCHANGED connectingPromise
         ELSE IF connectingPromise[c] # "null"
           THEN /\ SetH(h, [hs[h] EXCEPT !.pc = "shared"])
                /\ UNCHANGED connectingPromise
         ELSE /\ connectingPromise' = [connectingPromise EXCEPT ![c] = "pending"]
              /\ SetH(h, [hs[h] EXCEPT !.pc = "connect"])
  /\ UNCHANGED <<store, index, watching, dirty, addgameCalls, version, now, finalized,
                 lockCalls, redisClient>>

\* redisClient = await connectingPromise; connectingPromise = null; when the
\* attempt is rejected the await throws and neither assignment runs
getRedisClient_Connect(h) ==
  /\ At(h, "getRedisClient", "connect")
  /\ LET c == hs[h].proc
     IN  \E ok \in BOOLEAN :
           IF ok
             THEN /\ redisClient' = [redisClient EXCEPT ![c] = "open"]
                  /\ connectingPromise' = [connectingPromise EXCEPT ![c] = "null"]
                  /\ SetH(h, Finish(hs[h], "client"))
             ELSE /\ connectingPromise' = [connectingPromise EXCEPT ![c] = "rejected"]
                  /\ SetH(h, Finish(hs[h], "error"))
                  /\ UNCHANGED redisClient
  /\ UNCHANGED <<store, index, watching, dirty, addgameCalls, version, now, finalized,
                 lockCalls>>

\* return connectingPromise: the caller gets the outcome of that attempt
getRedisClient_Shared(h) ==
  /\ At(h, "getRedisClient", "shared")
  /\ connectingPromise[hs[h].proc] # "pending"
  /\ SetH(h, Finish(hs[h], IF connectingPromise[hs[h].proc] = "rejected" THEN "error"
                            ELSE "client"))
  /\ UNCHANGED <<store, index, watching, dirty, addgameCalls, version, now, finalized,
                 lockCalls, redisClient, connectingPromise>>

\* the connection of process c is lost: client.isOpen becomes false
Disconnect(c) ==
  /\ redisClient[c] = "open"
  /\ redisClient' = [redisClient EXCEPT ![c] = "closed"]
  /\ UNCHANGED <<store, index, watching, dirty, hs, addgameCalls, version, now, finalized,
                 lockCalls, connectingPromise>>

\* ---- FinishGame (commands/finish-game.js)

\* GetGame; a set completedAt makes the call return false (a missing game
\* throws); else game.completedAt = Date.now() on the copy that was read
FinishGame_GetGame(h) ==
  /\ At(h, "FinishGame", "get")
  /\ LET game == store[hs[h].gid]
     IN  SetH(h, IF IsNull(game) THEN Finish(hs[h], "error")
                 ELSE IF game.completedAt # 0 THEN Finish(hs[h], "false")
                 ELSE [hs[h] EXCEPT !.game = [game EXCEPT !.completedAt = now],
                                    !.pc = "set"])
  /\ UNCHANGED <<store, index, watching, dirty, addgameCalls, version, now, finalized,
                 lockCalls, redisClient, connectingPromise>>

\* SetGame(gameId, game), issued together with the players' FetchPlayerInfo
FinishGame_SetGame(h) ==
  /\ At(h, "FinishGame", "set")
  /\ SetGame(hs[h].gid, hs[h].game)
  /\ SetH(h, [hs[h] EXCEPT !.pc = "send"])
  /\ UNCHANGED <<index, addgameCalls, now, finalized, lockCalls, redisClient,
                 connectingPromise>>

\* the FetchPlayerInfo requests and SendMessageWithComponents, each of which
\* throws when its request fails; else return true
FinishGame_Send(h) ==
  /\ At(h, "FinishGame", "send")
  /\ \E ok \in BOOLEAN : SetH(h, Finish(hs[h], IF ok THEN "true" ELSE "error"))
  /\ UNCHANGED <<store, index, watching, dirty, addgameCalls, version, now, finalized,
                 lockCalls, redisClient, connectingPromise>>

\* ---- FinalizeGames (utils/utils.js) over MapToAllGames

FinalizeGames_Scan(h) ==
  /\ At(h, "FinalizeGames", "scan")
  /\ LET keys == SeqOf({g \in GameIds : ~IsNull(store[g])})
     IN  SetH(h, IF keys = <<>> THEN [hs[h] EXCEPT !.pc = "fset"]
                 ELSE [hs[h] EXCEPT !.todo = keys, !.pc = "fget"])
  /\ UNCHANGED <<store, index, watching, dirty, addgameCalls, version, now, finalized,
                 lockCalls, redisClient, connectingPromise>>

gameShouldFinalize(startTime, completionTime) ==
  completionTime # 0 /\ startTime - completionTime > THREAD_OPEN_TIME

\* redisClient.get(key) of the next key and the callback, which MapToAllGames
\* does not await, up to its LockThread request
FinalizeGames_Get(h) ==
  /\ At(h, "FinalizeGames", "fget")
  /\ LET g == Head(hs[h].todo)
         game == store[g]
         locks == ~IsNull(game) /\ gameShouldFinalize(hs[h].arg, game.completedAt)
     IN  /\ lockCalls' = IF locks THEN [lockCalls EXCEPT ![g] = @ + 1] ELSE lockCalls
         /\ SetH(h, [hs[h] EXCEPT !.todo = Tail(@),
                                  !.wait = IF locks THEN @ \cup {g} ELSE @,
                                  !.pc = IF Len(hs[h].todo) = 1 THEN "fset" ELSE "fget"])
  /\ UNCHANGED <<store, index, watching, dirty, addgameCalls, version, now, finalized,
                 redisClient, connectingPromise>>

\* a LockThread request is answered: the callback pushes the game's id, unless
\* the request threw
FinalizeGames_Locked(h) ==
  /\ hs[h].op = "FinalizeGames" /\ hs[h].pc \in {"fget", "fset"}
  /\ \E g \in hs[h].wait, ok \in BOOLEAN :
       SetH(h, [hs[h] EXCEPT !.wait = @ \ {g},
                            !.list = IF ok THEN Append(@, g) ELSE @])
  /\ UNCHANGED <<store, index, watching, dirty, addgameCalls, version, now, finalized,
                 lockCalls, redisClient, connectingPromise>>

\* .then: SetFinalizedGames(finalizedGames), with the ids pushed so far
FinalizeGames_SetFinalizedGames(h) ==
  /\ At(h, "FinalizeGames", "fset")
  /\ finalized' = hs[h].list
  /\ SetH(h, Finish(hs[h], "success"))
  /\ UNCHANGED <<store, index, watching, dirty, addgameCalls, version, now, lockCalls,
                 redisClient, connectingPromise>>

\* ---- CleanUpFinalizedGames and CleanUpOldGames (utils/utils.js): the promise
\* chain started for one game

\* CloseThread, whose rejection ends the chain in its catch
CleanUp_CloseThread(h) ==
  /\ hs[h].op \in {"CleanUpFinalizedGames", "CleanUpOldGames"} /\ hs[h].pc = "close"
  /\ \E ok \in BOOLEAN :
       SetH(h, IF ~ok THEN Finish(hs[h], "closefailed")
               ELSE IF hs[h].op = "CleanUpFinalizedGames" THEN [hs[h] EXCEPT !.pc = "rmgame"]
               ELSE [hs[h] EXCEPT !.pc = "rmget", !.pend = "success"])
  /\ UNCHANGED <<store, index, watching, dirty, addgameCalls, version, now, finalized,
                 lockCalls, redisClient, connectingPromise>>

\* CleanUpFinalizedGames: RemoveGame(gameId), then RemoveAllPlayersInGame(gameId)
CleanUpFinalizedGames_RemoveGame(h) ==
  /\ At(h, "CleanUpFinalizedGames", "rmgame")
  /\ SetGame(hs[h].gid, Null)
  /\ SetH(h, [hs[h] EXCEPT !.pc = "rmget", !.pend = "success"])
  /\ UNCHANGED <<index, addgameCalls, now, finalized, lockCalls, redisClient,
                 connectingPromise>>

\* CleanUpOldGames: RemoveGame(game.gameThreadId) after RemoveAllPlayersInGame
CleanUpOldGames_RemoveGame(h) ==
  /\ At(h, "CleanUpOldGames", "rmgame")
  /\ SetGame(hs[h].gid, Null)
  /\ SetH(h, Finish(hs[h], "success"))
  /\ UNCHANGED <<index, addgameCalls, now, finalized, lockCalls, redisClient,
                 connectingPromise>>

\* ---- time passes

\* the clock advances by one of the steps of D
Elapse(D, limit) ==
  /\ \E d \in D :
       /\ now + d <= limit
       /\ now' = now + d
  /\ UNCHANGED <<store, index, watching, dirty, hs, addgameCalls, version, finalized,
                 lockCalls, redisClient, connectingPromise>>

Tick(D) == Elapse(D, MaxTime)

\* ---- a request arrives: the handler starts on some process's connection

StartWith(h, r) ==
  /\ hs[h].pc = "idle"
  /\ \E c \in Procs : SetH(h, [r EXCEPT !.proc = c])
  /\ UNCHANGED <<store, index, watching, dirty, addgameCalls, version, now, finalized,
                 lockCalls, redisClient, connectingPromise>>

Start(h, op, pc, player, gid, arg) ==
  StartWith(h, [Idle EXCEPT !.op = op, !.pc = pc, !.player = player, !.gid = gid,
                            !.arg = arg])

\* the requests: P the participants who send them, G the lobbies they name
StartJoinGame(h, P, G) == \E p \in P, g \in G : Start(h, "JoinGame", "get", p, g, 0)

StartAtomicJoinGame(h, P, G) ==
  \E p \in P, g \in G : Start(h, "AtomicJoinGame", "watch", p, g, 0)

\* E the ELO requirements asked for
StartCreateGame(h, P, E) ==
  \E p \in P, e \in E :
    StartWith(h, [Idle EXCEPT !.op = "CreateGame", !.pc = "idx", !.player = p,
                              !.arg = MinPlayerCount, !.elo = e])

StartLeaveGame(h, P, G) == \E p \in P, g \in G : Start(h, "LeaveGame", "watch", p, g, 0)

\* LeaveGame of commands/leave-game.js
StartLeaveGameCommand(h, P, G) ==
  \E p \in P, g \in G : Start(h, "leave-game.js", "get", p, g, 0)

\* the selection S is one of the poll's options, or an id the game does not offer
StartSettingsPoll(h, P, G, S) ==
  \E p \in P, g \in G, sel \in S : Start(h, "SettingsPollSelectionMade", "spget", p, g, sel)

\* the winner poll offers the players and VOTE_VALUES.NOT_PLAYED
StartWinnerSelection(h, P, G, W) ==
  \E p \in P, g \in G, w \in W : Start(h, "WinnerSelection", "get", p, g, w)

StartAtomicVoteWinner(h, P, G, W) ==
  \E p \in P, g \in G, w \in W : Start(h, "AtomicVoteWinner", "watch", p, g, w)

\* a store operation of a request: const client = await getRedisClient()
StartGetRedisClient(h) == Start(h, "getRedisClient", "check", 0, 0, 0)

StartFinishGame(h, G) == \E g \in G : Start(h, "FinishGame", "get", 0, g, 0)

\* the cron job: startTime = Date.now()
StartCloseSettingsSelection(h) == Start(h, "CloseSettingsSelection", "scan", 0, 0, now)

\* the cron job: startTime = Date.now()
StartFinalizeGames(h) == Start(h, "FinalizeGames", "scan", 0, 0, now)

\* CleanUpFinalizedGames: GetFinalizedGames and the chain for one of its ids
StartCleanUpFinalizedGames(h) ==
  \E g \in Range(finalized) \ {0} : Start(h, "CleanUpFinalizedGames", "close", 0, g, 0)

\* CleanUpOldGames: the callback for a game MapToAllGames has read, which starts
\* a chain when the game is older than OLD_GAME_THRESHOLD
StartCleanUpOldGames(h) ==
  \E g \in GameIds :
    /\ ~IsNull(store[g])
    /\ now - store[g].createdAt > OLD_GAME_THRESHOLD
    /\ Start(h, "CleanUpOldGames", "close", 0, g, now)

\* the response is sent: the handler is free for the next request
Return(h) ==
  /\ hs[h].pc = "done"
  /\ SetH(h, Idle)
  /\ UNCHANGED <<store, index, watching, dirty, addgameCalls, version, now, finalized,
                 lockCalls, redisClient, connectingPromise>>

\* ---- lobbies as the commands leave them, used as starting points

\* a lobby of playerCount seats created by the first of roster and joined by the rest
Lobby(gid, roster, playerCount) ==
  [NewGame(gid, roster[1], playerCount, 0, 1) EXCEPT
     !.players = roster,
     !.filledAt = IF Len(roster) = playerCount THEN 1 ELSE 0]

IndexOf(games) ==
  [p \in Players |->
     IF \E g \in GameIds : ~IsNull(games[g]) /\ Includes(games[g].players, p)
       THEN CHOOSE g \in GameIds : ~IsNull(games[g]) /\ Includes(games[g].players, p)
       ELSE 0]

InitWith(games) ==
  /\ store = games
  /\ index = IndexOf(games)
  /\ watching = [c \in Procs |-> {}]
  /\ dirty = [c \in Procs |-> FALSE]
  /\ hs = [h \in Handlers |-> Idle]
  /\ addgameCalls = [g \in GameIds |-> 0]
  /\ version = [g \in GameIds |-> 0]
  /\ now = 1
  /\ finalized = <<0>>
  /\ lockCalls = [g \in GameIds |-> 0]
  /\ redisClient = [c \in Procs |-> "null"]
  /\ connectingPromise = [c \in Procs |-> "null"]

NoGames == [g \in GameIds |-> Null]

\* settingsVotes in which exactly the players of voters have voted
VotesOf(voters, choice) == [p \in Players |-> IF p \in voters THEN choice[p] ELSE 0]

\* ---- SpecJoin: a lobby with one free seat, a second lobby or none, and
\* concurrent CreateGame and JoinGame requests

InitJoin ==
  \E second \in {Null, Lobby(2, <<4>>, MinPlayerCount)} :
    InitWith([NoGames EXCEPT ![1] = Lobby(1, <<1, 2, 3>>, MinPlayerCount), ![2] = second])

JoinGameStep(h) ==
  \/ JoinGame_GetGame(h)
  \/ JoinGame_IsPlayerInGame(h)
  \/ JoinGame_IsPlayerInGame_Game(h)
  \/ JoinGame_SetPlayerInGame(h)
  \/ JoinGame_Fail(h)
  \/ JoinGame_SetGame(h)
  \/ JoinGame_UpdateGameFilled(h)

CreateGameStep(h) ==
  \/ CreateGame_GetPlayerInGame(h)
  \/ CreateGame_FetchPlayerInfo(h)
  \/ CreateGame_SetPlayerInGame(h)
  \/ CreateGame_Fail(h)
  \/ CreateGame_SetGame(h)

NextJoin ==
  \E h \in Handlers :
    \/ StartJoinGame(h, Players, GameIds)
    \/ StartCreateGame(h, Players, {0})
    \/ JoinGameStep(h)
    \/ JoinGame_IsPlayerInGame_Del(h)
    \/ CreateGameStep(h)

SpecJoin == InitJoin /\ [][NextJoin]_vars

\* ---- SpecRating: Join and CreateGame at a lobby with a rating requirement

RatedLobby(gid, roster, playerCount, eloRequirement) ==
  [Lobby(gid, roster, playerCount) EXCEPT !.eloRequirement = eloRequirement]

InitRating ==
  \E second \in {Null, Lobby(2, <<5>>, MinPlayerCount)} :
    InitWith([NoGames EXCEPT ![1] = RatedLobby(1, <<1, 2, 3>>, MinPlayerCount, 2),
                             ![2] = second])

NextRating ==
  \E h \in Handlers :
    \/ StartJoinGame(h, {4, 5, 6}, GameIds)
    \/ StartCreateGame(h, {4, 5, 6}, {0, 2})
    \/ JoinGameStep(h)
    \/ JoinGame_IsPlayerInGame_Del(h)
    \/ CreateGameStep(h)

SpecRating == InitRating /\ [][NextRating]_vars

\* ---- SpecAtomic: the WATCH/MULTI/EXEC operations racing on one lobby

InitAtomic ==
  \E seated \in {<<1, 2, 3>>, <<1, 2, 3, 4>>} :
    InitWith([NoGames EXCEPT ![1] = Lobby(1, seated, MinPlayerCount)])

AtomicStep(h) ==
  \/ Watch(h)
  \/ AtomicJoinGame_Get(h)
  \/ AtomicLeaveGame_Get(h)
  \/ SettingsPoll_GetGame(h)
  \/ AtomicVoteSettings_Get(h)
  \/ AtomicVoteWinner_Get(h)
  \/ Exec(h)
  \/ Unwatch(h)

NextAtomic ==
  \E h \in Handlers :
    \/ StartAtomicJoinGame(h, Players \ {1, 2}, {1})
    \/ StartLeaveGame(h, Players \ {1, 2}, {1})
    \/ StartSettingsPoll(h, Players \ {1, 2}, {1}, {0, 1})
    \/ StartAtomicVoteWinner(h, Players \ {1, 2}, {1}, {1, NOT_PLAYED})
    \/ AtomicStep(h)

SpecAtomic == InitAtomic /\ [][NextAtomic]_vars

\* ---- SpecSettings: a lobby in its settings phase, the participants' requests
\* and the settings-timeout sweep, which the cron job runs on handler 1 only

\* full with three votes in; full with no vote; or three seated after the
\* fourth, who had not voted, left
InitSettings ==
  \E lobby \in {[Lobby(1, <<1, 2, 3, 4>>, MinPlayerCount) EXCEPT
                   !.settingsVotes = VotesOf({1, 2, 3}, <<1, 1, 2>>)],
                Lobby(1, <<1, 2, 3, 4>>, MinPlayerCount),
                [Lobby(1, <<1, 2, 3>>, MinPlayerCount) EXCEPT
                   !.settingsVotes = VotesOf({1, 2, 3}, <<1, 1, 2>>)]} :
    InitWith([NoGames EXCEPT ![1] = lobby])

CloseSettingsStep(h) ==
  \/ CloseSettings_Scan(h)
  \/ CloseSettings_Get(h)
  \/ CloseSettings_SetGame(h)

LeaveGameStep(h) ==
  \/ Watch(h)
  \/ AtomicLeaveGame_Get(h)
  \/ Exec(h)
  \/ Unwatch(h)

SettingsPollStep(h) ==
  \/ SettingsPoll_GetGame(h)
  \/ AtomicVoteSettings_Get(h)

NextSettings ==
  \/ StartCloseSettingsSelection(1)
  \/ CloseSettingsStep(1)
  \/ Tick({1, SETTINGS_SELECTION_TIME})
  \/ \E h \in Handlers :
       \/ StartJoinGame(h, {4, 5}, {1})
       \/ StartLeaveGame(h, {3, 4}, {1})
       \/ StartSettingsPoll(h, {3, 4}, {1}, {2, 3})
       \/ JoinGameStep(h)
       \/ LeaveGameStep(h)
       \/ SettingsPollStep(h)

SpecSettings == InitSettings /\ [][NextSettings]_vars

\* ---- SpecFill: the last seat of a lobby is taken while the cron job runs the
\* settings-timeout sweep again and again on handler 1; nobody votes

InitFill == InitWith([NoGames EXCEPT ![1] = Lobby(1, <<1, 2, 3>>, MinPlayerCount)])

CronStep ==
  \/ StartCloseSettingsSelection(1)
  \/ CloseSettingsStep(1)
  \/ Return(1)

NextFill ==
  \/ Elapse({SETTINGS_SELECTION_TIME}, MaxSweepTime)
  \/ CronStep
  \/ StartJoinGame(2, {3, 4}, {1})
  \/ JoinGameStep(2)

\* the clock advances, the cron job fires and returns, and a request that has
\* started is served to its end
SpecFill ==
  /\ InitFill /\ [][NextFill]_vars
  /\ WF_vars(Elapse({SETTINGS_SELECTION_TIME}, MaxSweepTime))
  /\ WF_vars(CronStep)
  /\ WF_vars(JoinGameStep(2))

\* ---- SpecWinner: a lobby being played, its winner poll open, and concurrent
\* WinnerSelection requests; two votes for player 1 may already be in

Played(lobby, selectedSettingId, winnerVotes) ==
  [lobby EXCEPT !.settingsVotes = VotesOf({1, 2, 3, 4}, <<1, 1, 2, selectedSettingId>>),
                !.selectedSettingId = selectedSettingId,
                !.completedAt = 1,
                !.winnerVotes = winnerVotes]

InitWinner ==
  \E winnerVotes \in {<<>>, <<<<1, 1>>, <<2, 1>>>>} :
    InitWith([NoGames EXCEPT
                ![1] = Played(Lobby(1, <<1, 2, 3, 4>>, MinPlayerCount), 2, winnerVotes)])

WinnerSelectionStep(h) ==
  \/ WinnerSelection_GetGame(h)
  \/ WinnerSelection_SetVote(h)
  \/ WinnerSelection_AddGame(h)
  \/ WinnerSelection_SetWinner(h)
  \/ RemoveAllPlayersInGame_GetGame(h)
  \/ RemoveAllPlayersInGame_Del(h)

NextWinner ==
  \E h \in Handlers :
    \/ StartWinnerSelection(h, Players \ {1, 5}, {1}, {1, 2, NOT_PLAYED})
    \/ WinnerSelectionStep(h)

SpecWinner == InitWinner /\ [][NextWinner]_vars

\* ---- SpecLeave: participants leaving a lobby that is full, holds one player,
\* or has its settings selected, while participant 5 sits in a second lobby

InitLeave ==
  \E first \in {[Lobby(1, <<1, 2, 3, 4>>, MinPlayerCount) EXCEPT
                    !.settingsVotes = VotesOf({1, 2, 3}, <<1, 1, 2>>)],
                 Lobby(1, <<1>>, MinPlayerCount),
                 [Lobby(1, <<1, 2, 3, 4>>, MinPlayerCount) EXCEPT
                    !.settingsVotes = VotesOf({1, 2, 3, 4}, <<1, 1, 2, 2>>),
                    !.selectedSettingId = 1]} :
    InitWith([NoGames EXCEPT ![1] = first, ![2] = Lobby(2, <<5>>, MinPlayerCount)])

LeaveGameCommandStep(h) ==
  \/ LeaveGame_GetGame(h)
  \/ LeaveGame_SetGame(h)
  \/ LeaveGame_RemovePlayerInGame(h)
  \/ cancelGameIfEmpty_RemoveGame(h)

NextLeave ==
  \E h \in Handlers :
    \/ StartLeaveGame(h, {1, 2, 5}, {1})
    \/ StartLeaveGameCommand(h, {1, 2, 5}, {1})
    \/ LeaveGameStep(h)
    \/ LeaveGameCommandStep(h)

SpecLeave == InitLeave /\ [][NextLeave]_vars

\* ---- SpecSweep: the sweeps over a lobby whose game is completed and a lobby
\* that waits for players

InitSweep ==
  \E second \in {Null, Lobby(2, <<5>>, MinPlayerCount)} :
    InitWith([NoGames EXCEPT
                ![1] = Played(Lobby(1, <<1, 2, 3, 4>>, MinPlayerCount), 2, <<>>),
                ![2] = second])

FinalizeGamesStep(h) ==
  \/ FinalizeGames_Scan(h)
  \/ FinalizeGames_Get(h)
  \/ FinalizeGames_Locked(h)
  \/ FinalizeGames_SetFinalizedGames(h)

CleanUpStep(h) ==
  \/ CleanUp_CloseThread(h)
  \/ CleanUpFinalizedGames_RemoveGame(h)
  \/ CleanUpOldGames_RemoveGame(h)
  \/ RemoveAllPlayersInGame_GetGame(h)
  \/ RemoveAllPlayersInGame_Del(h)

NextSweep ==
  \/ Elapse({THREAD_OPEN_TIME + 1}, MaxTime)
  \/ Elapse({OLD_GAME_THRESHOLD}, MaxAge)
  \/ \E h \in Handlers :
       \/ StartFinalizeGames(h)
       \/ StartCleanUpFinalizedGames(h)
       \/ StartCleanUpOldGames(h)
       \/ FinalizeGamesStep(h)
       \/ CleanUpStep(h)

SpecSweep == InitSweep /\ [][NextSweep]_vars

\* ---- SpecFinish: finish requests for a lobby whose game is being played, or
\* whose settings poll is still open

InPlay(lobby, selectedSettingId) ==
  [Played(lobby, selectedSettingId, <<>>) EXCEPT !.completedAt = 0]

InitFinish ==
  \E lobby \in {InPlay(Lobby(1, <<1, 2, 3, 4>>, MinPlayerCount), 2),
                 Lobby(1, <<1, 2, 3, 4>>, MinPlayerCount)} :
    InitWith([NoGames EXCEPT ![1] = lobby])

FinishGameStep(h) ==
  \/ FinishGame_GetGame(h)
  \/ FinishGame_SetGame(h)
  \/ FinishGame_Send(h)

NextFinish ==
  \/ Elapse({1}, MaxTime)
  \/ \E h \in Handlers :
       \/ StartFinishGame(h, {1})
       \/ FinishGameStep(h)

SpecFinish == InitFinish /\ [][NextFinish]_vars

\* ---- SpecClient: the store operations of the requests of two processes,
\* each of which asks for the client first

InitClient == InitWith(NoGames)

getRedisClientStep(h) ==
  \/ getRedisClient_Check(h)
  \/ getRedisClient_Connect(h)
  \/ getRedisClient_Shared(h)

NextClient ==
  \/ \E c \in Procs : Disconnect(c)
  \/ \E h \in Handlers :
       \/ StartGetRedisClient(h)
       \/ getRedisClientStep(h)
       \/ Return(h)

SpecClient == InitClient /\ [][NextClient]_vars

\* ---- SpecTally: the winner poll of one lobby of 4, 5 or 6 players, its votes
\* arriving one request after the other

Seats(n) == [i \in 1..n |-> i]

InitTally ==
  \E n \in MinPlayerCount..NumPlayers :
    InitWith([NoGames EXCEPT ![1] = Played(Lobby(1, Seats(n), n), 2, <<>>)])

\* the seats vote in order, and seat 1 changes its vote up to MaxRevotes times
TallyVoters ==
  {p \in Players :
     /\ ~IsNull(store[1]) /\ p <= Len(store[1].players)
     /\ \/ p = Len(store[1].winnerVotes) + 1
        \/ /\ p = 1 /\ HasVoted(store[1].winnerVotes, 1) /\ store[1].winner = 0
           /\ version[1] - Len(store[1].winnerVotes) < MaxRevotes}

NextTally ==
  \/ StartWinnerSelection(1, TallyVoters, {1}, {1, 2, NOT_PLAYED})
  \/ WinnerSelectionStep(1)
  \/ Return(1)

SpecTally == InitTally /\ [][NextTally]_vars

\* ---- SpecPoll: the winner poll answered once by each user who can see the
\* thread, in the order of their ids

InitPoll ==
  \E n \in {4, 5} :
    InitWith([NoGames EXCEPT ![1] = Played(Lobby(1, Seats(n), n), 2, <<>>)])

PollVoters ==
  {p \in Players : ~IsNull(store[1]) /\ p = Len(store[1].winnerVotes) + 1}

NextPoll ==
  \/ StartWinnerSelection(1, PollVoters, {1}, {1, 2, NOT_PLAYED})
  \/ WinnerSelectionStep(1)
  \/ Return(1)

SpecPoll == InitPoll /\ [][NextPoll]_vars

\* ---- Spec: every operation, from each of the lobbies above

Init == InitJoin \/ InitAtomic \/ InitSettings \/ InitWinner \/ InitLeave

Next ==
  \/ StartCloseSettingsSelection(1)
  \/ CloseSettingsStep(1)
  \/ Tick({SETTINGS_SELECTION_TIME})
  \/ \E h \in Handlers :
       \/ StartCreateGame(h, {4, 5}, {0})
       \/ StartJoinGame(h, {4, 5}, GameIds)
       \/ StartAtomicJoinGame(h, {4, 5}, GameIds)
       \/ StartLeaveGame(h, {3, 4}, GameIds)
       \/ StartLeaveGameCommand(h, {1, 4}, {1})
       \/ StartSettingsPoll(h, {3, 4}, {1}, {0, 3})
       \/ StartWinnerSelection(h, {3, 4}, {1}, {1, NOT_PLAYED})
       \/ StartAtomicVoteWinner(h, {3, 4}, {1}, {1, NOT_PLAYED})
       \/ CreateGameStep(h)
       \/ JoinGameStep(h)
       \/ JoinGame_IsPlayerInGame_Del(h)
       \/ AtomicStep(h)
       \/ LeaveGameCommandStep(h)
       \/ WinnerSelectionStep(h)

Spec == Init /\ [][Next]_vars

\* ---- claims checked under SpecJoin

IsJoin(h) == hs[h].op \in {"JoinGame", "AtomicJoinGame"}
JoinedOk(h, gid) == IsJoin(h) /\ hs[h].gid = gid /\ hs[h].result = "success"

\* C1: lobby 1 starts with exactly one free seat and nobody leaves it, so of the
\* Join calls of distinct participants on lobby 1 at most one returns success
C1_AtMostOneJoinSucceeds ==
  \A h1, h2 \in Handlers :
    (h1 # h2 /\ hs[h1].player # hs[h2].player) => ~(JoinedOk(h1, 1) /\ JoinedOk(h2, 1))

\* C2: every stored lobby has players.length <= playerCount
C2_RosterWithinPlayerCount ==
  \A g \in GameIds : ~IsNull(store[g]) => Len(store[g].players) <= store[g].playerCount

\* two joins of distinct participants on lobby 1 both returned success and the
\* lobby stands exactly at its player count
C2_Witness ==
  /\ \E h1, h2 \in Handlers :
       h1 # h2 /\ hs[h1].player # hs[h2].player /\ JoinedOk(h1, 1) /\ JoinedOk(h2, 1)
  /\ ~IsNull(store[1]) /\ Len(store[1].players) = store[1].playerCount

\* C3: a participant id is on the roster of at most one stored lobby
LobbiesOf(p) == {g \in GameIds : ~IsNull(store[g]) /\ Includes(store[g].players, p)}

C3_OneLobbyPerParticipant == \A p \in Players : Cardinality(LobbiesOf(p)) <= 1

\* ---- claims checked under SpecAtomic

IsAtomic(h) ==
  hs[h].op \in {"AtomicJoinGame", "LeaveGame", "SettingsPollSelectionMade", "AtomicVoteWinner"}

\* the handler's operation reached EXEC and has returned
Decided(h) == IsAtomic(h) /\ hs[h].result \in {"success", "conflict"}

\* both read the same write of the lobby, so both read before either committed
ReadTogether(h1, h2) ==
  /\ h1 # h2 /\ Decided(h1) /\ Decided(h2)
  /\ hs[h1].gid = hs[h2].gid /\ hs[h1].ver = hs[h2].ver

\* C4: of two Atomic* mutations of one lobby that both read it before either
\* commits, exactly one commits and the other returns the conflict
C4_ExactlyOneCommits ==
  \A h1, h2 \in Handlers :
    ReadTogether(h1, h2) => {hs[h1].result, hs[h2].result} = {"success", "conflict"}

\* ---- claims checked under SpecSettings

SweepWrites == At(1, "CloseSettingsSelection", "swset") /\ hs'[1] # hs[1]

\* C5: a sweep write whose lobby was written (by a Join, Leave or VoteSettings:
\* the only other writers) since the sweep read it does not take effect
C5_SweepKeepsUserUpdate ==
  [][(SweepWrites /\ version[hs[1].gid] # hs[1].ver) => store' = store]_vars

Stays(g) == ~IsNull(store[g]) /\ ~IsNull(store'[g])

\* C6: a selectedSettingId that is set keeps its value as long as the lobby exists
C6_SelectedSettingImmutable ==
  [][\A g \in GameIds :
       (Stays(g) /\ store[g].selectedSettingId # 0)
         => store'[g].selectedSettingId = store[g].selectedSettingId]_vars

\* C7: once selectedSettingId is set the players list does not change
C7_RosterFrozen ==
  [][\A g \in GameIds :
       (Stays(g) /\ store[g].selectedSettingId # 0)
         => store'[g].players = store[g].players]_vars

\* ---- claims checked under SpecWinner

\* C8: the scoring service is asked at most once per lobby
C8_AddGameAtMostOnce == \A g \in GameIds : addgameCalls[g] <= 1

ScoringFailed(h) == hs[h].op = "WinnerSelection" /\ hs[h].scored = "failed"
ScoringOk(h) == hs[h].op = "WinnerSelection" /\ hs[h].scored = "ok"

C10_WinnerFinal ==
  [][\A g \in GameIds :
       (Stays(g) /\ store[g].winner # 0)
         => /\ store'[g].winner = store[g].winner
            /\ store'[g].winnerVotes = store[g].winnerVotes]_vars

\* ---- claims checked under SpecTally

IsVoteWinner(h) == hs[h].op \in {"WinnerSelection", "AtomicVoteWinner"}

NotPlayedCount(g) == CountOf(VoteValues(store[g].winnerVotes), NOT_PLAYED)

\* C11: once a call that voted 'not played' has returned and the lobby holds two
\* 'not played' votes, the lobby's winner is set (to the 'no result' value)
C11_NotPlayedResolves ==
  \A h \in Handlers :
    (/\ IsVoteWinner(h) /\ hs[h].pc = "done" /\ hs[h].result = "success"
     /\ hs[h].arg = NOT_PLAYED /\ hs[h].gid = 1 /\ ~IsNull(store[1])
     /\ NotPlayedCount(1) >= NOT_PLAYED_VOTE_THRESHOLD)
      => store[1].winner # 0

\* the votes of a record, and whether candidate c has the votes required to win
VotesFor(game, c) == CountOf(VoteValues(game.winnerVotes), c)
AtRequired(game, c) == VotesFor(game, c) >= REQUIRED_VOTES_BY_PLAYER_COUNT[game.playerCount]
FewNotPlayed(game) == VotesFor(game, NOT_PLAYED) < NOT_PLAYED_VOTE_THRESHOLD

\* handler h stores its vote in this step, and the record it stores
StoresVote(h) == At(h, "WinnerSelection", "vote") /\ hs'[h] # hs[h]
Stored(h) == store'[hs[h].gid]

\* handler h returns in this step
Returns(h) == hs[h].pc # "done" /\ hs'[h].pc = "done"

NoMajority(game) ==
  /\ Len(game.winnerVotes) = game.playerCount
  /\ FewNotPlayed(game)
  /\ \A c \in Players : ~AtRequired(game, c)

EntriesOf(winnerVotes, p) == {i \in 1..Len(winnerVotes) : winnerVotes[i][1] = p}

IsVoteSettings(h) == hs[h].op = "SettingsPollSelectionMade"

\* handler h reads the lobby for its vote in this step, and finds its participant's
\* earlier vote in a lobby whose settings are still open
ReadsOwnVote(h) ==
  /\ IsVoteSettings(h) /\ hs[h].pc = "get" /\ hs'[h] # hs[h]
  /\ ~IsNull(store[hs[h].gid]) /\ store[hs[h].gid].selectedSettingId = 0
  /\ store[hs[h].gid].settingsVotes[hs[h].player] # 0

CommitsSettingsVote(h) ==
  IsVoteSettings(h) /\ hs[h].pc = "exec" /\ hs'[h].pc = "done" /\ hs'[h].result = "success"

C17_FullHasFilledAt ==
  \A g \in GameIds :
    (~IsNull(store[g]) /\ Len(store[g].players) = store[g].playerCount
       /\ store[g].selectedSettingId = 0)
      => store[g].filledAt # 0

\* ---- claims checked under SpecLeave

IsLeave(h) == hs[h].op \in {"LeaveGame", "leave-game.js"}

\* the lobby handler h has read (or reads in this step) is one its participant
\* cannot leave: the participant is not on its roster, or its settings are selected
CannotLeave(game, p) ==
  ~IsNull(game) /\ (~Includes(game.players, p) \/ game.selectedSettingId # 0)

ReadCannotLeave(h) ==
  \/ hs[h].pc = "get" /\ CannotLeave(store[hs[h].gid], hs[h].player)
  \/ hs[h].pc \in {"set", "rmidx", "rmgame"} /\ CannotLeave(hs[h].game, hs[h].player)
  \/ hs[h].pc = "unwatch" /\ hs[h].pend = "validation"

\* C18: a Leave on a lobby the participant cannot leave returns a rejection, and
\* none of its steps changes a lobby record or an index entry
C18_RejectedLeaveChangesNothing ==
  [][\A h \in Handlers :
       (IsLeave(h) /\ hs'[h] # hs[h] /\ ReadCannotLeave(h))
         => /\ store' = store /\ index' = index
            /\ Returns(h) => hs'[h].result = "validation"]_vars

\* C19: the step of a Leave that takes the participant off a roster that stays
\* non-empty also removes their settings vote, clears filledAt when the roster is
\* below playerCount, and deletes their index entry
C19_LeaveCommitsAtOnce ==
  [][\A h \in Handlers :
       LET g == hs[h].gid
           p == hs[h].player
       IN  (/\ IsLeave(h) /\ hs'[h] # hs[h]
            /\ ~IsNull(store[g]) /\ ~IsNull(store'[g])
            /\ Includes(store[g].players, p) /\ ~Includes(store'[g].players, p)
            /\ Len(store'[g].players) > 0)
             => /\ store'[g].settingsVotes[p] = 0
                /\ Len(store'[g].players) < store'[g].playerCount => store'[g].filledAt = 0
                /\ index'[p] = 0]_vars

\* C20: no stored lobby has an empty players list
C20_NoEmptyLobby ==
  \A g \in GameIds : ~IsNull(store[g]) => Len(store[g].players) > 0

\* ---- claims about failed and rejected calls, checked under SpecJoin

\* C21: every Player-Index entry names a lobby whose record has been written
C21_IndexedLobbyWritten ==
  \A p \in Players :
    index[p] # 0 => (~IsNull(store[index[p]]) \/ version[index[p]] > 0)

OnRoster(p, g) == ~IsNull(store[g]) /\ Includes(store[g].players, p)

\* C22: after a JoinGame call has failed, its participant is on the lobby's roster
\* and indexed to the lobby, or neither
C22_FailedJoinAllOrNothing ==
  \A h \in Handlers :
    (hs[h].op = "JoinGame" /\ hs[h].pc = "done" /\ hs[h].result = "error")
      => (index[hs[h].player] = hs[h].gid <=> OnRoster(hs[h].player, hs[h].gid))

\* no other call of participant p is under way
NoOtherCall(h, p) ==
  \A k \in Handlers \ {h} : hs[k].player = p => hs[k].pc \in {"idle", "done"}

\* C29: the index check of CreateGame and of JoinGame does not reject a
\* participant whose entry, left by no call still under way, names a lobby that
\* is gone or does not list them, and removes the entry
C29_StaleEntryCleaned ==
  [][\A h \in Handlers :
       LET p == hs[h].player
       IN  /\ (At(h, "CreateGame", "idx") /\ hs'[h] # hs[h] /\ NoOtherCall(h, p)
                 /\ index[p] # 0 /\ IndexIsStale(store[index[p]], p))
                => (hs'[h].result # "validation" /\ index'[p] = 0)
           /\ (At(h, "JoinGame", "idxgame") /\ hs'[h] # hs[h]
                 /\ IndexIsStale(store[hs[h].aux], p))
                => hs'[h].pc = "idxdel"
           /\ (At(h, "JoinGame", "idxdel") /\ hs'[h] # hs[h]) => index'[p] = 0]_vars

\* ---- claims about rejected calls, checked under Spec

IsUserCall(h) ==
  hs[h].op \in {"JoinGame", "AtomicJoinGame", "LeaveGame", "leave-game.js",
                "SettingsPollSelectionMade", "WinnerSelection", "AtomicVoteWinner"}

\* the step in which a call of a participant returns a validation rejection; the
\* steps such a call takes before it are reads
RejectedNow(h) ==
  IsUserCall(h) /\ hs[h].pc # "done" /\ hs'[h].pc = "done" /\ hs'[h].result = "validation"

\* C23: a Join, Leave, VoteSettings or VoteWinner call that is rejected changes no
\* lobby record and no Player-Index entry
C23_RejectionChangesNothing ==
  [][\A h \in Handlers : RejectedNow(h) => (store' = store /\ index' = index)]_vars

\* C23, amended: such a call changes no lobby record, and no Player-Index entry
\* other than the caller's own, which the index check of JoinGame may delete
C23_RejectionKeepsLobbies ==
  [][\A h \in Handlers :
       RejectedNow(h)
         => /\ store' = store
            /\ \/ index' = index
               \/ hs[h].op = "JoinGame" /\ index' = [index EXCEPT ![hs[h].player] = 0]]_vars

\* a JoinGame was rejected after its index check had deleted the entry a failed
\* CreateGame of the same participant left behind
C23_Witness ==
  \E h, k \in Handlers :
    /\ hs[h].op = "JoinGame" /\ hs[h].pc = "done" /\ hs[h].result = "validation"
    /\ hs[k].op = "CreateGame" /\ hs[k].result = "error" /\ hs[k].gid # 0
    /\ hs[k].player = hs[h].player /\ index[hs[h].player] = 0

\* ---- claims checked under SpecAtomic

\* the EXEC of handler h is answered null and the call returns the conflict result
ConflictNow(h) == hs[h].pc = "exec" /\ hs'[h].pc = "done" /\ hs'[h].result = "conflict"

\* C24: a call that returns the conflict result has applied none of its queued
\* writes, and leaves its connection without a watched key, as a fresh call finds it
C24_ConflictAppliesNothing ==
  [][\A h \in Handlers :
       ConflictNow(h)
         => /\ store' = store /\ index' = index /\ version' = version
            /\ watching'[hs[h].proc] = {} /\ ~dirty'[hs[h].proc]]_vars

\* an Atomic* call has returned the conflict result after another call changed
\* the lobby it had read
C24_Witness ==
  \E h \in Handlers :
    /\ hs[h].pc = "done" /\ hs[h].result = "conflict"
    /\ version[hs[h].gid] > hs[h].ver

\* ---- further claims checked under SpecSettings

\* the SetGame of the settings-timeout sweep
SweepSets(h) == At(h, "CloseSettingsSelection", "swset") /\ hs'[h] # hs[h]

\* C25: the lobby on which the sweep sets selectedSettingId has filledAt set,
\* selectedSettingId unset and was filled at least the settings timeout ago; the
\* id set is one of its submitted votes, or one of settingsOptions when it has none
C25_SweepSelectsOnTimeout ==
  [][\A h \in Handlers :
       SweepSets(h)
         => LET lobby == store[hs[h].gid]
            IN  /\ ~IsNull(lobby)
                /\ lobby.filledAt # 0
                /\ lobby.selectedSettingId = 0
                /\ now - lobby.filledAt >= SETTINGS_SELECTION_TIME
                /\ store'[hs[h].gid].selectedSettingId
                     \in (IF SettingsVoters(lobby) # {} THEN SettingsVoteValues(lobby)
                          ELSE settingsOptions)]_vars

IsTeardown(h) == hs[h].op \in {"CleanUpFinalizedGames", "CleanUpOldGames"}

\* C26: when a sweep's teardown of a lobby ends after its thread was closed
\* (old-lobby cleanup or cleanup of a finalized lobby), the lobby's record is
\* gone and no Player-Index entry maps to the lobby
C26_TeardownRemovesIndex ==
  [][\A h \in Handlers :
       (IsTeardown(h) /\ hs[h].pc # "done" /\ hs'[h].pc = "done"
          /\ hs'[h].result # "closefailed")
         => /\ IsNull(store'[hs[h].gid])
            /\ \A p \in Players : index'[p] # hs[h].gid]_vars

IsFinalizePass(h) == hs[h].op = "FinalizeGames" /\ hs'[h] # hs[h]

\* C27: a step of a finalize sweep never locks the thread of a lobby that is
\* on the finalized-games list again, and leaves the lobby on the list
C27_ResweepIsNoOp ==
  [][\A h \in Handlers : \A g \in Range(finalized) \ {0} :
       IsFinalizePass(h) => /\ lockCalls'[g] = lockCalls[g]
                            /\ g \in Range(finalized')]_vars

NoDuplicates(seq) == \A i, j \in 1..Len(seq) : seq[i] = seq[j] => i = j

\* C28: no stored lobby has the same participant id twice in players
C28_RosterUnique ==
  \A g \in GameIds : ~IsNull(store[g]) => NoDuplicates(store[g].players)

RatingStep(h) ==
  /\ hs'[h] # hs[h]
  /\ \/ At(h, "CreateGame", "fetch")
     \/ /\ At(h, "JoinGame", "idx")
        /\ index[hs[h].player] = 0
        /\ ~JoinGameFull(hs[h].game)

RatingRequirement(h) ==
  IF hs[h].op = "CreateGame" THEN hs[h].elo ELSE hs[h].game.eloRequirement

\* C30: at the rating gate of CreateGame and of a Join that passed the index
\* and fullness tests, with requirement 0 the call is neither rejected nor
\* aborted; with a requirement above 0 it ends only with a validation error,
\* and does so whenever the participant's rating is below the requirement
C30_RatingGate ==
  [][\A h \in Handlers :
       RatingStep(h) =>
         IF RatingRequirement(h) = 0 THEN hs'[h].pc # "done"
         ELSE /\ hs'[h].pc = "done" => hs'[h].result = "validation"
              /\ FfaEloScore[hs[h].player] < RatingRequirement(h) => hs'[h].pc = "done"]_vars

ReturnedTrue(h, g) ==
  hs[h].op = "FinishGame" /\ hs[h].gid = g /\ hs[h].pc = "done" /\ hs[h].result = "true"

\* C31: completedAt of a lobby, once set, is never written again, and at most
\* one FinishGame call on a lobby has returned true
C31_FinishOnce ==
  [][\A g \in GameIds :
       /\ (~IsNull(store[g]) /\ ~IsNull(store'[g]) /\ store[g].completedAt # 0)
            => store'[g].completedAt = store[g].completedAt
       /\ \A h1, h2 \in Handlers :
            (ReturnedTrue(h1, g)' /\ ReturnedTrue(h2, g)') => h1 = h2]_vars

CandidatesAtRequired(game) == {c \in Players : AtRequired(game, c)}

\* C32: in a stored lobby of 4, 5 or 6 seats at most one candidate has the
\* required number of winner votes
C32_OneCandidateAtRequired ==
  \A g \in GameIds :
    (~IsNull(store[g]) /\ store[g].playerCount \in 4..6)
      => Cardinality(CandidatesAtRequired(store[g])) <= 1

RosterVotesOnly(game) ==
  \A i \in 1..Len(game.winnerVotes) : Includes(game.players, game.winnerVotes[i][1])

\* C33: for every record the winner poll stores from first-time votes of roster
\* members, AtomicVoteWinner computes the resolution WinnerSelection reaches
C33_SameResolution ==
  \A g \in GameIds :
    (~IsNull(store[g]) /\ store[g].winner = 0 /\ store[g].winnerVotes # <<>>
       /\ RosterVotesOnly(store[g]))
      => AtomicVoteWinnerResolution(store[g]) = WinnerSelectionResolution(store[g])

RosterFull(g) == ~IsNull(store[g]) /\ Len(store[g].players) = store[g].playerCount
SettingsSelected(g) == ~IsNull(store[g]) /\ store[g].selectedSettingId # 0
FilledInTime(g) ==
  /\ ~IsNull(store[g]) /\ store[g].filledAt # 0
  /\ store[g].filledAt + SETTINGS_SELECTION_TIME <= MaxSweepTime

C35_ListHoldsSelected ==
  [][\A h \in Handlers :
       (At(h, "FinalizeGames", "fset") /\ hs'[h].pc = "done")
         => \A g \in hs[h].wait \cup Range(hs[h].list) : g \in Range(finalized')]_vars

AttemptFailed(c) == redisClient[c] # "open" /\ connectingPromise[c] = "rejected"

\* C36: a call of getRedisClient that finds no open client and a failed
\* connection attempt starts a new attempt
C36_FailedAttemptIsRetried ==
  [][\A h \in Handlers :
       (At(h, "getRedisClient", "check") /\ hs'[h] # hs[h] /\ AttemptFailed(hs[h].proc))
         => connectingPromise'[hs[h].proc] = "pending"]_vars

\* C37: a stored lobby has filledAt set only if its roster is at capacity
C37_FilledOnlyWhenFull ==
  \A g \in GameIds :
    (~IsNull(store[g]) /\ store[g].filledAt # 0)
      => Len(store[g].players) = store[g].playerCount

WinnerVoters(game) == {game.winnerVotes[i][1] : i \in 1..Len(game.winnerVotes)}

\* C38: in a stored lobby every key of settingsVotes and of winnerVotes is on
\* the roster
C38_VotersOnRoster ==
  \A g \in GameIds :
    ~IsNull(store[g])
      => /\ SettingsVoters(store[g]) \subseteq Range(store[g].players)
         /\ WinnerVoters(store[g]) \subseteq Range(store[g].players)

\* C39: in a stored lobby, winner votes or a winner imply completedAt, and
\* completedAt implies selectedSettingId
C39_PhasesOrdered ==
  \A g \in GameIds :
    ~IsNull(store[g])
      => /\ (store[g].winnerVotes # <<>> \/ store[g].winner # 0) => store[g].completedAt # 0
         /\ store[g].completedAt # 0 => store[g].selectedSettingId # 0

\* C40: while a lobby is stored with no winner, every participant on its
\* roster has a Player-Index entry that names this lobby
C40_RosterIndexed ==
  \A g \in GameIds :
    (~IsNull(store[g]) /\ store[g].winner = 0)
      => \A p \in Range(store[g].players) : index[p] = g

====
